---- MODULE Spec2Model ----
(***************************************************************************)
(* A model of pow.py, a terminal file explorer: the FileExplorer object,   *)
(* its key handler, the directory scan, the fuzzy filter, note creation    *)
(* and the control loop of run().                                          *)
(*                                                                         *)
(* Text is a sequence of character codes ("a/" is <<97, 47>>), a path is   *)
(* a sequence of names from the filesystem root (<<>> is "/"), and a key   *)
(* is the integer that getch() returns.                                    *)
(***************************************************************************)
EXTENDS Integers, Sequences, FiniteSets, TLC

----------------------------------------------------------------------------
(* Bounds of the model *)

\* longest search query the model types
MaxQuery == 1
\* longest note title the model types
MaxTitle == 1
\* most files the session writes
MaxCreated == 1

----------------------------------------------------------------------------
(* Keys: the codes handle_input compares against *)

KEY_ESC == 27
KEY_DEL == 127
KEY_BS == 8
KEY_BACKSPACE == 263
KEY_LF == 10
KEY_CR == 13
KEY_UP == 259
KEY_DOWN == 258
KEY_CTRL_N == 14
KEY_CTRL_D == 4
KEY_Q == 113
KEY_SLASH == 47
KEY_SPACE == 32
\* getch() under stdscr.timeout(100) with no key pressed
KEY_NONE == -1

BackspaceKeys == {KEY_DEL, KEY_BACKSPACE, KEY_BS}
EnterKeys == {KEY_LF, KEY_CR}
Printable(key) == 32 <= key /\ key <= 126

\* the keys the model presses
Keys ==
    {KEY_ESC, KEY_DEL, KEY_LF, KEY_UP, KEY_DOWN,
     KEY_CTRL_N, KEY_CTRL_D, KEY_Q, KEY_SLASH, KEY_SPACE}

----------------------------------------------------------------------------
(* Text helpers *)

Min(a, b) == IF a < b THEN a ELSE b
Max(a, b) == IF a > b THEN a ELSE b

\* str.lower() on one ASCII character
LowerChar(c) == IF 65 <= c /\ c <= 90 THEN c + 32 ELSE c
\* str.lower()
Lower(s) == [i \in 1..Len(s) |-> LowerChar(s[i])]

\* s[:-1]
DropLast(s) == IF s = <<>> THEN <<>> ELSE SubSeq(s, 1, Len(s) - 1)

\* lexicographic s < t on code sequences, as Python compares str
RECURSIVE StrLess(_, _)
StrLess(s, t) ==
    IF t = <<>> THEN FALSE
    ELSE IF s = <<>> THEN TRUE
    ELSE IF s[1] # t[1] THEN s[1] < t[1]
    ELSE StrLess(Tail(s), Tail(t))

\* the characters str.strip() removes
IsSpace(c) == c \in (9..13) \cup (28..32) \cup {133, 160}

RECURSIVE LStrip(_)
LStrip(s) == IF s # <<>> /\ IsSpace(s[1]) THEN LStrip(Tail(s)) ELSE s
RECURSIVE RStrip(_)
RStrip(s) == IF s # <<>> /\ IsSpace(s[Len(s)]) THEN RStrip(DropLast(s)) ELSE s
\* str.strip()
Strip(s) == RStrip(LStrip(s))

\* str(n) for n >= 0
RECURSIVE Decimal(_)
Decimal(n) == IF n < 10 THEN <<48 + n>> ELSE Decimal(n \div 10) \o <<48 + (n % 10)>>

DOT == 46
HYPHEN == 45
UNDERSCORE == 95
SLASH == 47

DotMd == <<46, 109, 100>>
ParentName == <<46, 46, 47>>
Untitled == <<117, 110, 116, 105, 116, 108, 101, 100>>

TEXT_EXTENSIONS ==
    {<<46,116,120,116>>, <<46,109,100>>, <<46,112,121>>, <<46,106,115>>,
     <<46,106,115,111,110>>, <<46,121,97,109,108>>, <<46,121,109,108>>,
     <<46,104,116,109,108>>, <<46,99,115,115>>, <<46,115,104>>,
     <<46,99,111,110,102>>, <<46,99,102,103>>, <<46,105,110,105>>,
     <<46,108,111,103>>, <<46,115,113,108>>, <<46,120,109,108>>,
     <<46,99,115,118>>, <<46,116,111,109,108>>, <<46,114,115>>,
     <<46,103,111>>, <<46,99>>, <<46,99,112,112>>, <<46,104>>,
     <<46,104,112,112>>, <<46,106,97,118,97>>, <<46,112,104,112>>,
     <<46,114,98>>, <<46,112,108>>, <<46,116,115>>, <<46,106,115,120>>,
     <<46,116,115,120>>, <<46,118,117,101>>, <<46,115,118,101,108,116,101>>,
     <<46,115,99,115,115>>, <<46,115,97,115,115>>, <<46,108,101,115,115>>}

----------------------------------------------------------------------------
(* Paths *)

Root == <<>>
\* Path.parent: the root is its own parent
Parent(path) == IF path = <<>> THEN <<>> ELSE SubSeq(path, 1, Len(path) - 1)
\* path / name
Join(path, name) == Append(path, name)

\* position of the last "." of a name, 0 if none (str.rfind, 1-based)
RECURSIVE RFindDot(_, _)
RFindDot(name, i) ==
    IF i = 0 THEN 0 ELSE IF name[i] = DOT THEN i ELSE RFindDot(name, i - 1)
\* Path.suffix: the last dot and what follows, unless the dot opens or ends the name
Suffix(name) ==
    LET p == RFindDot(name, Len(name))
    IN  IF 1 < p /\ p < Len(name) THEN SubSeq(name, p, Len(name)) ELSE <<>>

----------------------------------------------------------------------------
(* The filesystem the session runs on *)

NameA == <<97>>
NameE == <<101>>
NameN == <<110>>
NameQ == <<113>>
NameV == <<118>>
NameR == <<114>>
NameL == <<108>>

\* one child of a directory, as iterdir() yields it
\*   kind     "dir", "file" or "link" (a symlink to the directory `target`)
\*   content  the bytes of a file
\*   inspect  "err" when is_dir()/is_file() raise PermissionError or OSError
\*   read     "err" when open() or read() fail
\*   resolve  "perm" when resolve() raises PermissionError
Child(name, kind, target, content, inspect, read, resolve) ==
    [name |-> name, kind |-> kind, target |-> target, content |-> content,
     inspect |-> inspect, read |-> read, resolve |-> resolve]
DirChild(name) == Child(name, "dir", <<>>, <<>>, "ok", "ok", "ok")
FileChild(name, content) == Child(name, "file", <<>>, content, "ok", "ok", "ok")
LinkChild(name, target) == Child(name, "link", target, <<>>, "ok", "ok", "ok")

DirA == <<NameA>>
DirE == <<NameE>>
DirN == <<NameN>>
DirAV == <<NameA, NameV>>
DirAR == <<NameA, NameR>>

DirPaths == {Root, DirA, DirE, DirN, DirAV, DirAR}

\* children in the order iterdir() yields them, which is not sorted
InitialFS ==
    [d \in DirPaths |->
        CASE d = Root ->
                <<FileChild(NameQ, <<104, 105>>),          \* q: "hi", no extension
                  DirChild(NameN), DirChild(NameE), DirChild(NameA)>>
          [] d = DirA ->
                <<FileChild(<<97, 46, 109, 100>>, <<35>>), \* a.md
                  DirChild(NameV),
                  FileChild(<<66, 46, 77, 68>>, <<>>),     \* B.MD
                  LinkChild(NameL, DirE),                  \* l -> /e
                  [DirChild(NameR) EXCEPT !.resolve = "perm"]>>
          [] d = DirE ->
                <<FileChild(<<46, 104>>, <<104>>),         \* .h, hidden
                  FileChild(<<122, 46, 98>>, <<104>>),     \* z.b, unknown extension
                  FileChild(<<120>>, <<0, 1>>),            \* x, binary
                  FileChild(<<121>>, <<195, 40>>),         \* y, not UTF-8
                  [FileChild(<<112>>, <<>>) EXCEPT !.inspect = "err"],  \* p
                  [FileChild(<<117>>, <<104>>) EXCEPT !.read = "err"]>> \* u
          [] OTHER -> <<>>]

\* what iterdir() does on a directory: "ok", "perm" (PermissionError) or
\* "gone" (FileNotFoundError: the directory vanished after it was listed)
DirIter(path) ==
    CASE path = DirN -> "perm"
      [] path = DirAV -> "gone"
      [] OTHER -> "ok"

\* whether write_text() succeeds in the directory
DirWritable(path) == path = DirA

\* working directories the program is started in
StartDirs == {DirA, Root}
\* values of the EDITOR variable: unset, a command that launches, one that does not
Editors == {"unset", "ok", "bad"}

\* index of the child called name in a listing, 0 if none
RECURSIVE IndexOf(_, _, _)
IndexOf(listing, name, i) ==
    IF i > Len(listing) THEN 0
    ELSE IF listing[i].name = name THEN i
    ELSE IndexOf(listing, name, i + 1)

\* Path.exists()
Exists(fsv, path) ==
    \/ path = Root
    \/ /\ Parent(path) \in DOMAIN fsv
       /\ IndexOf(fsv[Parent(path)], path[Len(path)], 1) # 0

\* the child record behind a path; the root has none
HasChild(fsv, path) == path # Root /\ Exists(fsv, path)
ChildAt(fsv, path) ==
    fsv[Parent(path)][IndexOf(fsv[Parent(path)], path[Len(path)], 1)]

\* Path.resolve(): [raised, path]; a symlink resolves to its target
Resolve(fsv, path) ==
    IF HasChild(fsv, path) /\ ChildAt(fsv, path).resolve = "perm"
        THEN [raised |-> "PermissionError", path |-> path]
    ELSE IF HasChild(fsv, path) /\ ChildAt(fsv, path).kind = "link"
        THEN [raised |-> "none", path |-> ChildAt(fsv, path).target]
    ELSE [raised |-> "none", path |-> path]

\* iterdir() promises no order: the model lists the files the session adds
\* after the initial children, in name order
RECURSIVE InsertByName(_, _)
InsertByName(listing, c) ==
    IF listing = <<>> THEN <<c>>
    ELSE IF StrLess(c.name, Head(listing).name) THEN <<c>> \o listing
    ELSE <<Head(listing)>> \o InsertByName(Tail(listing), c)

\* Path.write_text(""): truncates the file, or creates it
WriteEmpty(fsv, path) ==
    LET dir == Parent(path)
        name == path[Len(path)]
        i == IndexOf(fsv[dir], name, 1)
        n0 == Len(InitialFS[dir])
    IN  IF i # 0
            THEN [fsv EXCEPT ![dir][i].content = <<>>]
            ELSE [fsv EXCEPT ![dir] =
                     SubSeq(@, 1, n0)
                         \o InsertByName(SubSeq(@, n0 + 1, Len(@)), FileChild(name, <<>>))]

\* number of files the session has added to the filesystem
RECURSIVE SumLen(_, _)
SumLen(f, S) ==
    IF S = {} THEN 0
    ELSE LET d == CHOOSE x \in S : TRUE IN Len(f[d]) + SumLen(f, S \ {d})
Created(fsv) == SumLen(fsv, DirPaths) - SumLen(InitialFS, DirPaths)

----------------------------------------------------------------------------
(* is_text_file *)

\* bytes read for content sniffing
CHUNK == 512

IsCont(b) == 128 <= b /\ b <= 191

\* bytes.decode('utf-8') succeeds
RECURSIVE ValidUtf8(_)
ValidUtf8(b) ==
    IF b = <<>> THEN TRUE
    ELSE LET c == b[1]
             n == Len(b)
         IN  IF c <= 127 THEN ValidUtf8(Tail(b))
             ELSE IF 194 <= c /\ c <= 223
                 THEN n >= 2 /\ IsCont(b[2]) /\ ValidUtf8(SubSeq(b, 3, n))
             ELSE IF 224 <= c /\ c <= 239
                 THEN /\ n >= 3
                      /\ IsCont(b[2])
                      /\ (c = 224 => b[2] >= 160)
                      /\ (c = 237 => b[2] <= 159)
                      /\ IsCont(b[3])
                      /\ ValidUtf8(SubSeq(b, 4, n))
             ELSE IF 240 <= c /\ c <= 244
                 THEN /\ n >= 4
                      /\ IsCont(b[2])
                      /\ (c = 240 => b[2] >= 144)
                      /\ (c = 244 => b[2] <= 143)
                      /\ IsCont(b[3])
                      /\ IsCont(b[4])
                      /\ ValidUtf8(SubSeq(b, 5, n))
             ELSE FALSE

\* c < 127 and (c >= 32 or c in [9, 10, 13])
IsPrintableByte(c) == c < 127 /\ (c >= 32 \/ c \in {9, 10, 13})

RECURSIVE CountPrintable(_)
CountPrintable(b) ==
    IF b = <<>> THEN 0
    ELSE (IF IsPrintableByte(b[1]) THEN 1 ELSE 0) + CountPrintable(Tail(b))

\* whether is_text_file gets as far as open(path, 'rb')
OpensFile(child) ==
    /\ Suffix(Lower(child.name)) \notin TEXT_EXTENSIONS
    /\ Suffix(child.name) = <<>>

\* is_text_file with printable_ratio >= 0.8
is_text_file_ratio_inclusive(child) ==
    IF Suffix(Lower(child.name)) \in TEXT_EXTENSIONS THEN TRUE
    ELSE IF Suffix(child.name) = <<>>
        THEN IF child.read = "err" THEN FALSE
             ELSE LET chunk == SubSeq(child.content, 1, Min(CHUNK, Len(child.content)))
                  IN  IF chunk = <<>> THEN TRUE
                      ELSE IF ~ValidUtf8(chunk) THEN FALSE
                      ELSE 5 * CountPrintable(chunk) >= 4 * Len(chunk)
    ELSE FALSE

\* is_text_file(path) on the child behind the path;
\* printable_ratio > 0.8 is count / len > 4 / 5
is_text_file(child) ==
    IF Suffix(Lower(child.name)) \in TEXT_EXTENSIONS THEN TRUE
    ELSE IF Suffix(child.name) = <<>>
        THEN IF child.read = "err" THEN FALSE
             ELSE LET chunk == SubSeq(child.content, 1, Min(CHUNK, Len(child.content)))
                  IN  IF chunk = <<>> THEN TRUE
                      ELSE IF ~ValidUtf8(chunk) THEN FALSE
                      ELSE 5 * CountPrintable(chunk) > 4 * Len(chunk)
    ELSE FALSE

----------------------------------------------------------------------------
(* scan_directory *)

\* an entry of items: (display name, is directory, path)
Item(name, is_dir, path) == [name |-> name, is_dir |-> is_dir, path |-> path]

\* the parent entry, unless at the root
ParentItems(path) ==
    IF path # Parent(path) THEN <<Item(ParentName, TRUE, Parent(path))>> ELSE <<>>

\* the loop with one try around it: an inspection error ends the listing
RECURSIVE Collect_stops_at_error(_, _)
Collect_stops_at_error(dir, listing) ==
    IF listing = <<>> THEN <<>>
    ELSE LET c == Head(listing)
             rest == Collect_stops_at_error(dir, Tail(listing))
         IN  IF c.name[1] = DOT THEN rest
             ELSE IF c.inspect = "err" THEN <<>>
             ELSE IF c.kind \in {"dir", "link"}
                 THEN <<Item(c.name \o <<SLASH>>, TRUE, Join(dir, c.name))>> \o rest
             ELSE IF is_text_file(c)
                 THEN <<Item(c.name, FALSE, Join(dir, c.name))>> \o rest
             ELSE rest

\* the loop body over iterdir(): the entries collected from a listing, in its order
RECURSIVE Collect(_, _)
Collect(dir, listing) ==
    IF listing = <<>> THEN <<>>
    ELSE LET c == Head(listing)
             rest == Collect(dir, Tail(listing))
         IN  IF c.name[1] = DOT THEN rest
             ELSE IF c.inspect = "err" THEN rest
             ELSE IF c.kind \in {"dir", "link"}
                 THEN <<Item(c.name \o <<SLASH>>, TRUE, Join(dir, c.name))>> \o rest
             ELSE IF is_text_file(c)
                 THEN <<Item(c.name, FALSE, Join(dir, c.name))>> \o rest
             ELSE rest

\* the sort key without .lower()
EntryLess_case_sensitive(a, b) ==
    \/ a.is_dir /\ ~b.is_dir
    \/ a.is_dir = b.is_dir /\ StrLess(a.name, b.name)

\* the sort key (not x[1], x[0].lower()) orders a before b
EntryLess(a, b) ==
    \/ a.is_dir /\ ~b.is_dir
    \/ a.is_dir = b.is_dir /\ StrLess(Lower(a.name), Lower(b.name))

\* insert x after every element that does not sort after it (list.sort is stable)
RECURSIVE InsertEntry(_, _)
InsertEntry(sorted, x) ==
    IF sorted = <<>> THEN <<x>>
    ELSE IF EntryLess(x, Head(sorted)) THEN <<x>> \o sorted
    ELSE <<Head(sorted)>> \o InsertEntry(Tail(sorted), x)

RECURSIVE SortEntries(_)
SortEntries(entries) ==
    IF entries = <<>> THEN <<>>
    ELSE InsertEntry(SortEntries(DropLast(entries)), entries[Len(entries)])

\* the cursor clamp that ends scan_directory
ClampCursor(cursor, list) ==
    IF list # <<>> THEN Max(0, Min(cursor, Len(list) - 1)) ELSE 0

\* scan_directory on a world w (the explorer's fields, the filesystem, and
\* ctl: "run", or the exception in flight, or "exec" once the process is replaced)
scan_directory(w) ==
    LET dir == w.current_path
        parent == ParentItems(dir)
    IN  CASE DirIter(dir) = "ok" ->
                LET all == parent \o SortEntries(Collect(dir, w.fs[dir]))
                IN  [w EXCEPT !.items = all,
                              !.cursor_position = ClampCursor(w.cursor_position, all)]
          [] DirIter(dir) = "perm" ->
                \* except PermissionError: pass
                [w EXCEPT !.items = parent,
                          !.cursor_position = ClampCursor(w.cursor_position, parent)]
          [] OTHER ->
                \* FileNotFoundError is not caught: it leaves scan_directory
                [w EXCEPT !.items = parent, !.ctl = "OSError"]

----------------------------------------------------------------------------
(* handle_search *)

\* length of the longest common subsequence
RECURSIVE LCS(_, _)
LCS(s, t) ==
    IF s = <<>> \/ t = <<>> THEN 0
    ELSE IF s[1] = t[1] THEN 1 + LCS(Tail(s), Tail(t))
    ELSE Max(LCS(Tail(s), t), LCS(s, Tail(t)))

\* fuzz.ratio(s, t): the normalized Indel similarity 100 * 2 * LCS / (|s| + |t|),
\* 100 for two empty strings, kept as the fraction num / den
fuzz_ratio(s, t) ==
    IF Len(s) + Len(t) = 0 THEN [num |-> 100, den |-> 1]
    ELSE [num |-> 200 * LCS(s, t), den |-> Len(s) + Len(t)]

\* score > 40, the relevance threshold
THRESHOLD == 40
\* `>=` written for `>`
AboveThreshold_inclusive(score) == score.num >= THRESHOLD * score.den
AboveThreshold(score) == score.num > THRESHOLD * score.den
\* a.score > b.score
ScoreGreater(a, b) == a.num * b.den > b.num * a.den

\* the (score, item) pairs of the loop over items
RECURSIVE Matches(_, _)
Matches(query, list) ==
    IF list = <<>> THEN <<>>
    ELSE LET score == fuzz_ratio(Lower(query), Lower(Head(list).name))
             rest == Matches(query, Tail(list))
         IN  IF AboveThreshold(score)
                 THEN <<[score |-> score, item |-> Head(list)]>> \o rest
                 ELSE rest

\* an ascending sort reversed, written for sort(reverse=True): ties come out
\* in reverse order
RECURSIVE InsertMatch_reverses_ties(_, _)
InsertMatch_reverses_ties(sorted, m) ==
    IF sorted = <<>> THEN <<m>>
    ELSE IF ~ScoreGreater(Head(sorted).score, m.score) THEN <<m>> \o sorted
    ELSE <<Head(sorted)>> \o InsertMatch_reverses_ties(Tail(sorted), m)

\* matches.sort(key=score, reverse=True): descending and stable
RECURSIVE InsertMatch(_, _)
InsertMatch(sorted, m) ==
    IF sorted = <<>> THEN <<m>>
    ELSE IF ScoreGreater(m.score, Head(sorted).score) THEN <<m>> \o sorted
    ELSE <<Head(sorted)>> \o InsertMatch(Tail(sorted), m)

RECURSIVE SortMatches(_)
SortMatches(ms) ==
    IF ms = <<>> THEN <<>>
    ELSE InsertMatch(SortMatches(DropLast(ms)), ms[Len(ms)])

\* handle_search without the branch for the empty query
Filter_scores_empty_query(query, list) ==
    LET ms == SortMatches(Matches(query, list))
    IN  [i \in 1..Len(ms) |-> ms[i].item]

\* the list handle_search assigns to filtered_items
Filter(query, list) ==
    IF query = <<>> THEN list
    ELSE LET ms == SortMatches(Matches(query, list))
         IN  [i \in 1..Len(ms) |-> ms[i].item]

handle_search(w, query) ==
    [w EXCEPT !.filtered_items = Filter(query, w.items),
              !.cursor_position = 0]

----------------------------------------------------------------------------
(* Notes *)

IsAllowedChar(c) ==
    \/ 97 <= c /\ c <= 122
    \/ 65 <= c /\ c <= 90
    \/ 48 <= c /\ c <= 57
    \/ c = HYPHEN
    \/ c = UNDERSCORE

\* title.replace(' ', '-')
SpacesToHyphens(s) == [i \in 1..Len(s) |-> IF s[i] = KEY_SPACE THEN HYPHEN ELSE s[i]]

\* re.sub(r'[^a-zA-Z0-9\-_]', '', s)
RECURSIVE KeepAllowed(_)
KeepAllowed(s) ==
    IF s = <<>> THEN <<>>
    ELSE IF IsAllowedChar(s[1]) THEN <<s[1]>> \o KeepAllowed(Tail(s))
    ELSE KeepAllowed(Tail(s))

\* re.sub(r'-+', '-', s)
RECURSIVE CollapseHyphens(_)
CollapseHyphens(s) ==
    IF Len(s) < 2 THEN s
    ELSE IF s[1] = HYPHEN /\ s[2] = HYPHEN THEN CollapseHyphens(Tail(s))
    ELSE <<s[1]>> \o CollapseHyphens(Tail(s))

\* s.lstrip('-') written for s.strip('-')
RECURSIVE StripHyphens_leading_only(_)
StripHyphens_leading_only(s) ==
    IF s # <<>> /\ s[1] = HYPHEN THEN StripHyphens_leading_only(Tail(s)) ELSE s

\* s.strip('-')
RECURSIVE StripHyphens(_)
StripHyphens(s) ==
    IF s # <<>> /\ s[1] = HYPHEN THEN StripHyphens(Tail(s))
    ELSE IF s # <<>> /\ s[Len(s)] = HYPHEN THEN StripHyphens(DropLast(s))
    ELSE s

sanitize_filename(title) ==
    LET filename == StripHyphens(CollapseHyphens(KeepAllowed(SpacesToHyphens(title))))
    IN  IF filename = <<>> THEN Untitled ELSE filename

\* the clock: datetime.now()
Now == [year |-> 2024, month |-> 3, day |-> 7]

\* zero-padded decimal of the given width
RECURSIVE Padded(_, _)
Padded(n, width) ==
    IF width = 0 THEN <<>> ELSE Padded(n \div 10, width - 1) \o <<48 + (n % 10)>>

\* strftime("%Y-%m-%d.md")
get_daily_note_filename ==
    Padded(Now.year, 4) \o <<HYPHEN>> \o Padded(Now.month, 2) \o <<HYPHEN>>
        \o Padded(Now.day, 2) \o DotMd

\* open_file: endwin(), then the editor replaces the process ("exec"), or the
\* call returns after the message (EDITOR unset, or execvp failed)
open_file(w, file_path) ==
    [w EXCEPT !.calls = Append(@, "open_file"),
              !.opened = Append(@, file_path),
              !.ctl = IF w.editor = "ok" THEN "exec" ELSE "run"]

\* the loop body run once, under `if` written for `while`
UniquePath_checks_once(fsv, dir, filename, counter) ==
    Join(dir, filename \o <<HYPHEN>> \o Decimal(counter) \o DotMd)

\* the while loop of create_note: the first path that does not exist
RECURSIVE UniquePath(_, _, _, _)
UniquePath(fsv, dir, filename, counter) ==
    LET file_path == Join(dir, filename \o <<HYPHEN>> \o Decimal(counter) \o DotMd)
    IN  IF Exists(fsv, file_path)
            THEN UniquePath(fsv, dir, filename, counter + 1)
            ELSE file_path

create_note(w, title) ==
    LET filename == sanitize_filename(Strip(title))
        first == Join(w.current_path, filename \o DotMd)
        file_path == IF Exists(w.fs, first)
                         THEN UniquePath(w.fs, w.current_path, filename, 1)
                         ELSE first
        w1 == [w EXCEPT !.calls = Append(@, "create_note")]
    IN  IF Strip(title) = <<>> THEN w1
        ELSE IF DirWritable(w.current_path)
                 THEN open_file([w1 EXCEPT !.fs = WriteEmpty(w.fs, file_path),
                                           !.wrote = Append(@, file_path)],
                                file_path)
                 \* except Exception: return False
                 ELSE w1

\* open_daily_note without the exists() check: it writes in every case
open_daily_note_always_writes(w) ==
    LET file_path == Join(w.current_path, get_daily_note_filename)
        w1 == [w EXCEPT !.calls = Append(@, "open_daily_note")]
    IN  IF DirWritable(w.current_path)
            THEN open_file([w1 EXCEPT !.fs = WriteEmpty(w.fs, file_path),
                                      !.wrote = Append(@, file_path)],
                           file_path)
            ELSE w1

open_daily_note(w) ==
    LET file_path == Join(w.current_path, get_daily_note_filename)
        w1 == [w EXCEPT !.calls = Append(@, "open_daily_note")]
    IN  IF ~Exists(w.fs, file_path)
            THEN IF DirWritable(w.current_path)
                     THEN open_file([w1 EXCEPT !.fs = WriteEmpty(w.fs, file_path),
                                               !.wrote = Append(@, file_path)],
                                    file_path)
                     \* except Exception: return False
                     ELSE w1
            ELSE open_file(w1, file_path)

----------------------------------------------------------------------------
(* navigate_to and handle_input *)

\* navigate_to without `self.search_query = ""`
navigate_to_keeps_query(w, path) ==
    LET r == Resolve(w.fs, path)
        w0 == [w EXCEPT !.calls = Append(@, "navigate_to")]
    IN  IF r.raised = "PermissionError"
            THEN w0
            ELSE scan_directory(
                     [w0 EXCEPT !.current_path = r.path,
                                !.cursor_position = 0,
                                !.search_mode = FALSE,
                                !.note_mode = FALSE,
                                !.note_title = <<>>])

navigate_to(w, path) ==
    LET r == Resolve(w.fs, path)
        w0 == [w EXCEPT !.calls = Append(@, "navigate_to")]
    IN  IF r.raised = "PermissionError"
            \* except PermissionError: pass
            THEN w0
            ELSE scan_directory(
                     [w0 EXCEPT !.current_path = r.path,
                                !.cursor_position = 0,
                                !.search_mode = FALSE,
                                !.search_query = <<>>,
                                !.note_mode = FALSE,
                                !.note_title = <<>>])

\* Enter on current_items[cursor_position]
EnterOn(w, current_items) ==
    LET selected == current_items[w.cursor_position + 1]
    IN  IF selected.is_dir
            THEN navigate_to(w, selected.path)
            ELSE open_file(w, selected.path)

\* Escape in Search that leaves the query in place
SearchEscape_keeps_query(w) ==
    [w EXCEPT !.search_mode = FALSE, !.cursor_position = 0]

\* Escape when search_mode is set
SearchEscape(w) ==
    [w EXCEPT !.search_mode = FALSE,
              !.search_query = <<>>,
              !.cursor_position = 0]

\* the Search branch with a Backspace that does not call handle_search
SearchInput_backspace_keeps_filter(w, k, current_items) ==
    IF k = KEY_ESC
        THEN SearchEscape(w)
    ELSE IF k \in BackspaceKeys
        THEN [w EXCEPT !.search_query = DropLast(@)]
    ELSE IF k \in EnterKeys /\ current_items # <<>>
        THEN EnterOn(w, current_items)
    ELSE IF Printable(k)
        THEN handle_search([w EXCEPT !.search_query = Append(@, k)],
                           Append(w.search_query, k))
    ELSE w

\* the branch taken when search_mode is set
SearchInput(w, k, current_items) ==
    IF k = KEY_ESC
        THEN SearchEscape(w)
    ELSE IF k \in BackspaceKeys
        THEN handle_search([w EXCEPT !.search_query = DropLast(@)],
                           DropLast(w.search_query))
    ELSE IF k \in EnterKeys /\ current_items # <<>>
        THEN EnterOn(w, current_items)
    ELSE IF Printable(k)
        THEN handle_search([w EXCEPT !.search_query = Append(@, k)],
                           Append(w.search_query, k))
    ELSE w

\* Enter in NoteEntry that stays in the mode when the title is blank
NoteEnter_stays_on_blank(w) ==
    IF Strip(w.note_title) # <<>>
        THEN LET w1 == create_note(w, w.note_title)
             IN  IF w1.ctl = "run"
                     THEN [w1 EXCEPT !.note_mode = FALSE, !.note_title = <<>>]
                     ELSE w1
        ELSE w

\* Enter when note_mode is set; the two assignments after create_note run
\* only if the editor did not replace the process
NoteEnter(w) ==
    LET w1 == IF Strip(w.note_title) # <<>>
                  THEN create_note(w, w.note_title)
                  ELSE w
    IN  IF w1.ctl = "run"
            THEN [w1 EXCEPT !.note_mode = FALSE, !.note_title = <<>>]
            ELSE w1

\* the branch taken when note_mode is set
NoteInput(w, k) ==
    IF k = KEY_ESC
        THEN [w EXCEPT !.note_mode = FALSE, !.note_title = <<>>]
    ELSE IF k \in BackspaceKeys
        THEN [w EXCEPT !.note_title = DropLast(@)]
    ELSE IF k \in EnterKeys
        THEN NoteEnter(w)
    ELSE IF Printable(k)
        THEN [w EXCEPT !.note_title = Append(@, k)]
    ELSE w

\* Down without the clamp to the last index
MoveDown_unclamped(w, current_items) ==
    [w EXCEPT !.cursor_position = w.cursor_position + 1]

\* Down in Browse
MoveDown(w, current_items) ==
    [w EXCEPT !.cursor_position = Min(Len(current_items) - 1, w.cursor_position + 1)]

\* the branch taken otherwise
BrowseInput(w, k, current_items) ==
    IF k = KEY_Q
        THEN [w EXCEPT !.ret = FALSE]
    ELSE IF k = KEY_SLASH
        THEN handle_search([w EXCEPT !.search_mode = TRUE, !.search_query = <<>>],
                           <<>>)
    ELSE IF k = KEY_CTRL_N
        THEN [w EXCEPT !.note_mode = TRUE, !.note_title = <<>>]
    ELSE IF k = KEY_CTRL_D
        THEN open_daily_note(w)
    ELSE IF k = KEY_UP /\ current_items # <<>>
        THEN [w EXCEPT !.cursor_position = Max(0, w.cursor_position - 1)]
    ELSE IF k = KEY_DOWN /\ current_items # <<>>
        THEN MoveDown(w, current_items)
    ELSE IF k \in EnterKeys /\ current_items # <<>>
        THEN EnterOn(w, current_items)
    ELSE w

\* handle_input that takes Ctrl+N before it looks at the mode
handle_input_global_ctrl_n(w, k) ==
    LET current_items == IF w.search_mode THEN w.filtered_items ELSE w.items
    IN  IF k = KEY_CTRL_N THEN [w EXCEPT !.note_mode = TRUE, !.note_title = <<>>]
        ELSE IF w.search_mode THEN SearchInput(w, k, current_items)
        ELSE IF w.note_mode THEN NoteInput(w, k)
        ELSE BrowseInput(w, k, current_items)

\* handle_input that takes `q` before it looks at the mode
handle_input_global_quit(w, k) ==
    LET current_items == IF w.search_mode THEN w.filtered_items ELSE w.items
    IN  IF k = KEY_Q THEN [w EXCEPT !.ret = FALSE]
        ELSE IF w.search_mode THEN SearchInput(w, k, current_items)
        ELSE IF w.note_mode THEN NoteInput(w, k)
        ELSE BrowseInput(w, k, current_items)

\* handle_input(key); ret is its return value, read when ctl is "run"
handle_input(w, k) ==
    LET current_items == IF w.search_mode THEN w.filtered_items ELSE w.items
    IN  IF w.search_mode THEN SearchInput(w, k, current_items)
        ELSE IF w.note_mode THEN NoteInput(w, k)
        ELSE BrowseInput(w, k, current_items)

\* the viewport with start_idx = max(0, cursor - available_rows)
visible_window_starts_early(total, cursor, rows) ==
    LET start_idx == Max(0, cursor - rows)
        end_idx == Min(total, start_idx + rows)
    IN  IF end_idx = total
            THEN <<Max(0, end_idx - rows), end_idx>>
            ELSE <<start_idx, end_idx>>

\* the viewport with available_rows = max(1, height - row - 2)
visible_window_at_least_one_row(total, cursor, rows) ==
    LET start_idx == Max(0, cursor - Max(1, rows) + 1)
        end_idx == Min(total, start_idx + Max(1, rows))
    IN  IF end_idx = total
            THEN <<Max(0, end_idx - Max(1, rows)), end_idx>>
            ELSE <<start_idx, end_idx>>

\* the viewport of render_ui: <<start_idx, end_idx>> for a list of `total`
\* items, the cursor and available_rows
visible_window(total, cursor, rows) ==
    LET start_idx == Max(0, cursor - rows + 1)
        end_idx == Min(total, start_idx + rows)
    IN  IF end_idx = total
            THEN <<Max(0, end_idx - rows), end_idx>>
            ELSE <<start_idx, end_idx>>

\* the indices of display_items that render_ui draws: none for an empty list
\* ("No text files found"), else range(start_idx, end_idx) until the loop
\* breaks at row >= height - 2, which is after available_rows lines
DrawnIndices(total, cursor, rows) ==
    IF total = 0 THEN {}
    ELSE LET win == visible_window(total, cursor, rows)
         IN  {i \in win[1]..(win[2] - 1) : i - win[1] < rows}

\* what render_ui puts on the screen, short of the viewport cut:
\* the header, the input bar, the list with the cursor mark, the status line
render_ui(w) ==
    LET display_items == IF w.search_mode THEN w.filtered_items ELSE w.items
    IN  [header |-> w.current_path,
         bar |-> IF w.search_mode THEN <<"Search: ", w.search_query>>
                 ELSE IF w.note_mode THEN <<"New note title: ", w.note_title>>
                 ELSE <<>>,
         body |-> IF display_items = <<>> THEN <<"No text files found">>
                  ELSE [i \in 1..Len(display_items) |->
                           <<display_items[i].name, i - 1 = w.cursor_position>>],
         status |-> IF w.search_mode
                        THEN <<"search", Len(w.filtered_items), Len(w.items)>>
                    ELSE IF w.note_mode THEN <<"note">>
                    ELSE <<"browse", Len(w.items)>>]

----------------------------------------------------------------------------
(* The state of the session *)

VARIABLES
    current_path,     \* FileExplorer.current_path
    cursor_position,  \* FileExplorer.cursor_position
    items,            \* FileExplorer.items
    search_mode,      \* FileExplorer.search_mode
    search_query,     \* FileExplorer.search_query
    filtered_items,   \* FileExplorer.filtered_items
    note_mode,        \* FileExplorer.note_mode
    note_title,       \* FileExplorer.note_title
    fs,               \* the listing of every directory
    editor,           \* the EDITOR variable of the environment
    pc,               \* where the process is: "start", "render", "getch",
                      \* or ended: "quit", "exec", "crashed"
    last,             \* history: the handle_input call of this loop iteration,
                      \* its key, the world before it, and what it called,
                      \* wrote and opened; cleared by the next render_ui
    handed_off,       \* history: open_file has been called in this session
    fn                \* a function applied on its own: its name, its
                      \* arguments and, once it returned, <<its result>>

vars == <<current_path, cursor_position, items, search_mode, search_query,
          filtered_items, note_mode, note_title, fs, editor, pc, last,
          handed_off, fn>>

\* the explorer, the filesystem and the environment as one world record
World ==
    [current_path |-> current_path, cursor_position |-> cursor_position,
     items |-> items, search_mode |-> search_mode, search_query |-> search_query,
     filtered_items |-> filtered_items, note_mode |-> note_mode,
     note_title |-> note_title, fs |-> fs, editor |-> editor,
     ctl |-> "run", ret |-> TRUE,
     calls |-> <<>>, wrote |-> <<>>, opened |-> <<>>]

NoCall == [key |-> KEY_NONE, before |-> <<>>, calls |-> <<>>, wrote |-> <<>>,
           opened |-> <<>>, ctl |-> "run", ret |-> TRUE]

\* no function is applied on its own
NoFn == [name |-> "", args |-> <<>>, result |-> <<>>]

\* the explorer's fields and the filesystem after a call returned w
Becomes(w) ==
    /\ current_path' = w.current_path
    /\ cursor_position' = w.cursor_position
    /\ items' = w.items
    /\ search_mode' = w.search_mode
    /\ search_query' = w.search_query
    /\ filtered_items' = w.filtered_items
    /\ note_mode' = w.note_mode
    /\ note_title' = w.note_title
    /\ fs' = w.fs
    /\ handed_off' = (handed_off \/ w.opened # <<>>)

\* an exception that leaves main_loop ends the process in main(); a False
\* from handle_input breaks the loop; execvp replaces the process
AfterCall(w) ==
    CASE w.ctl = "exec" -> "exec"
      [] w.ctl # "run" -> "crashed"
      [] ~w.ret -> "quit"
      [] OTHER -> "render"

\* __init__: the explorer in the working directory, before run()
Init ==
    /\ current_path \in StartDirs
    /\ cursor_position = 0
    /\ items = <<>>
    /\ search_mode = FALSE
    /\ search_query = <<>>
    /\ filtered_items = <<>>
    /\ note_mode = FALSE
    /\ note_title = <<>>
    /\ fs = InitialFS
    /\ editor \in Editors
    /\ pc = "start"
    /\ last = NoCall
    /\ handed_off = FALSE
    /\ fn = NoFn

\* run(): the first scan_directory, before the loop
Run ==
    /\ pc = "start"
    /\ LET w == scan_directory(World)
       IN  /\ Becomes(w)
           /\ pc' = AfterCall(w)
    /\ UNCHANGED <<editor, last, fn>>

\* main_loop: render_ui(stdscr)
Render ==
    /\ pc = "render"
    /\ pc' = "getch"
    /\ last' = NoCall
    /\ UNCHANGED <<current_path, cursor_position, items, search_mode, search_query,
                   filtered_items, note_mode, note_title, fs, editor, handed_off, fn>>

\* main_loop: getch() timed out, continue
Timeout ==
    /\ pc = "getch"
    /\ pc' = "render"
    /\ UNCHANGED <<current_path, cursor_position, items, search_mode, search_query,
                   filtered_items, note_mode, note_title, fs, editor, last,
                   handed_off, fn>>

\* main_loop: getch() returned k, handle_input(k)
HandleKey(k) ==
    /\ pc = "getch"
    /\ LET w == handle_input(World, k)
       IN  /\ Len(w.search_query) <= MaxQuery
           /\ Len(w.note_title) <= MaxTitle
           /\ Created(w.fs) <= MaxCreated
           /\ Becomes(w)
           /\ pc' = AfterCall(w)
           /\ last' = [key |-> k, before |-> World, calls |-> w.calls,
                       wrote |-> w.wrote, opened |-> w.opened,
                       ctl |-> w.ctl, ret |-> w.ret]
    /\ UNCHANGED <<editor, fn>>

Next ==
    \/ Run
    \/ Render
    \/ Timeout
    \/ \E k \in Keys : HandleKey(k)

Spec == Init /\ [][Next]_vars

----------------------------------------------------------------------------
(* Properties of the session *)

\* the list the cursor indexes
ActiveList == IF search_mode THEN filtered_items ELSE items
ActiveListOf(w) == IF w.search_mode THEN w.filtered_items ELSE w.items

\* this loop iteration handled a key
KeyHandled == last.key # KEY_NONE
\* ... and handle_input returned to the loop (the process was not replaced,
\* no exception left the handler)
KeyReturned == KeyHandled /\ last.ctl = "run"

\* the entry under the cursor when the key was handled
SelectedBefore == ActiveListOf(last.before)[last.before.cursor_position + 1]

\* Enter was handled on a directory entry, in Browse or in Search
EnterOnDirectory ==
    /\ KeyHandled
    /\ last.key \in EnterKeys
    /\ ~(last.before.note_mode /\ ~last.before.search_mode)
    /\ ActiveListOf(last.before) # <<>>
    /\ SelectedBefore.is_dir

\* C1: the cursor is in range of the active list: below its length when the
\* list is non-empty, 0 when it is empty
CursorInRange ==
    /\ ActiveList # <<>> => 0 <= cursor_position /\ cursor_position < Len(ActiveList)
    /\ ActiveList = <<>> => cursor_position = 0

\* C1 witness: Down was pressed with the cursor on the last of several items
CursorInRangeWitness ==
    /\ KeyReturned
    /\ last.key = KEY_DOWN
    /\ ~last.before.search_mode /\ ~last.before.note_mode
    /\ Len(items) > 1
    /\ last.before.cursor_position = Len(items) - 1
    /\ cursor_position = Len(items) - 1

\* C2: search_mode and note_mode are never both set
OneModeActive == ~(search_mode /\ note_mode)

\* C2 witness: NoteEntry was entered after a search had been made and left
OneModeActiveWitness ==
    /\ KeyReturned
    /\ last.key = KEY_CTRL_N
    /\ note_mode
    /\ ~search_mode
    /\ filtered_items # <<>>

\* C3: in Search mode Up and Down move the cursor by -1 and +1 within the
\* filtered list, clamped to its first and last index
SearchUpDownMoveCursor ==
    (KeyReturned /\ last.before.search_mode /\ last.before.filtered_items # <<>>) =>
        /\ last.key = KEY_UP =>
               cursor_position = Max(0, last.before.cursor_position - 1)
        /\ last.key = KEY_DOWN =>
               cursor_position = Min(Len(last.before.filtered_items) - 1,
                                     last.before.cursor_position + 1)

\* the directory chosen with Enter cannot be read: resolve() or iterdir()
\* raise PermissionError
TargetUnreadable ==
    LET r == Resolve(last.before.fs, SelectedBefore.path)
    IN  r.raised = "PermissionError" \/ DirIter(r.path) = "perm"

\* C4: a Navigate into an unreadable directory does not crash, leaves the
\* cursor and items as they were, and ends in Browse mode
FailedNavigateKeepsState ==
    (EnterOnDirectory /\ TargetUnreadable) =>
        /\ pc # "crashed"
        /\ cursor_position = last.before.cursor_position
        /\ items = last.before.items
        /\ ~search_mode /\ ~note_mode

\* C5: the loop is never ended by a filesystem error: the session ends only
\* on q in Browse mode or on a hand-off to the editor
LoopEndsOnlyOnQuitOrOpen ==
    pc \in {"quit", "exec", "crashed"} =>
        \/ /\ pc = "quit"
           /\ last.key = KEY_Q
           /\ ~last.before.search_mode /\ ~last.before.note_mode
        \/ /\ pc = "exec"
           /\ last.opened # <<>>

\* C6: once open_file has been called, the loop does not go on: no render_ui
\* and no getch() follow
OpenFileIsTerminal == handed_off => pc \notin {"render", "getch"}

\* the explorer's fields other than the path
FieldsSansPath(w) ==
    <<w.items, w.cursor_position, w.search_mode, w.search_query, w.note_mode,
      w.note_title>>

\* the screen below the header line
ScreenSansHeader(w) == [render_ui(w) EXCEPT !.header = <<>>]

\* a directory that can be read and lists nothing
ReadableAndBare(d) == DirIter(d) = "ok" /\ Collect(d, fs[d]) = <<>>

\* C7: a scan of an unreadable directory yields the parent entry alone, and
\* leaves a state, and a screen, unlike the one a scan of a readable directory
\* with nothing to list leaves
PermissionDeniedIsSignalled ==
    (pc = "render" /\ DirIter(current_path) = "perm" /\ EnterOnDirectory) =>
        /\ items = ParentItems(current_path)
        /\ \A d \in DirPaths :
               ReadableAndBare(d) =>
                   LET other == scan_directory([World EXCEPT !.current_path = d])
                   IN  /\ FieldsSansPath(World) # FieldsSansPath(other)
                       /\ ScreenSansHeader(World) # ScreenSansHeader(other)

\* Enter was handled in NoteEntry mode
NoteEnterHandled ==
    /\ KeyHandled
    /\ last.key \in EnterKeys
    /\ last.before.note_mode /\ ~last.before.search_mode

\* C8: Enter in NoteEntry leaves the mode and clears the title whatever the
\* title; create_note is called iff the stripped title is non-empty, and a
\* blank title writes no file
NoteEnterClearsAndCreatesIffTitled ==
    NoteEnterHandled =>
        /\ last.ctl = "run" => ~note_mode /\ ~search_mode /\ note_title = <<>>
        /\ ("create_note" \in {last.calls[i] : i \in 1..Len(last.calls)})
               <=> Strip(last.before.note_title) # <<>>
        /\ Strip(last.before.note_title) = <<>> =>
               last.wrote = <<>> /\ fs = last.before.fs /\ last.opened = <<>>

\* C8 witness: Enter on a title of spaces, in a session that created a note before
NoteEnterWitness ==
    /\ NoteEnterHandled
    /\ last.before.note_title # <<>>
    /\ Strip(last.before.note_title) = <<>>
    /\ ~note_mode
    /\ Created(fs) > 0

\* the Navigate of EnterOnDirectory succeeded
NavigateSucceeded ==
    /\ EnterOnDirectory
    /\ Resolve(last.before.fs, SelectedBefore.path).raised = "none"
    /\ DirIter(Resolve(last.before.fs, SelectedBefore.path).path) = "ok"

\* C9: a successful Navigate ends in Browse mode, in the resolved path of the
\* selected entry, with items a fresh scan of it, the cursor at 0 and the
\* query and the title empty
NavigateResetsState ==
    NavigateSucceeded =>
        /\ ~search_mode /\ ~note_mode
        /\ current_path = Resolve(last.before.fs, SelectedBefore.path).path
        /\ items = ParentItems(current_path)
                       \o SortEntries(Collect(current_path, fs[current_path]))
        /\ cursor_position = 0
        /\ search_query = <<>>
        /\ note_title = <<>>

\* C9 witness: Enter in Search mode on a symlink, which lands in its target
NavigateWitness ==
    /\ NavigateSucceeded
    /\ last.before.search_mode
    /\ last.before.search_query # <<>>
    /\ current_path # SelectedBefore.path
    /\ current_path # last.before.current_path

\* C10: Escape returns to Browse: from Search with the query cleared and the
\* cursor at 0, from NoteEntry with the title cleared and the cursor where it
\* was; items and current_path are unchanged
EscapeCancels ==
    (KeyHandled /\ last.key = KEY_ESC) =>
        /\ last.before.search_mode =>
               /\ ~search_mode /\ ~note_mode
               /\ search_query = <<>>
               /\ cursor_position = 0
               /\ items = last.before.items
               /\ current_path = last.before.current_path
        /\ (last.before.note_mode /\ ~last.before.search_mode) =>
               /\ ~search_mode /\ ~note_mode
               /\ note_title = <<>>
               /\ cursor_position = last.before.cursor_position
               /\ items = last.before.items
               /\ current_path = last.before.current_path

\* C10 witness: Escape in Search mode with a query typed
EscapeWitness ==
    /\ KeyHandled
    /\ last.key = KEY_ESC
    /\ last.before.search_mode
    /\ last.before.search_query # <<>>
    /\ ~search_mode

----------------------------------------------------------------------------
(* Directories drawn from a pool of children *)

\* the strings over an alphabet of at most n characters
RECURSIVE StringsUpTo(_, _)
StringsUpTo(alphabet, n) ==
    IF n = 0 THEN {<<>>}
    ELSE LET shorter == StringsUpTo(alphabet, n - 1)
         IN  shorter \cup {Append(s, c) : s \in shorter, c \in alphabet}

\* the children of a set as one listing, in name order
RECURSIVE ListingOf(_)
ListingOf(S) ==
    IF S = {} THEN <<>>
    ELSE LET c == CHOOSE x \in S : TRUE IN InsertByName(ListingOf(S \ {c}), c)

\* the explorer as __init__ leaves it, on a given filesystem
StartWorld(path, fsv, ed) ==
    [current_path |-> path, cursor_position |-> 0, items |-> <<>>,
     search_mode |-> FALSE, search_query |-> <<>>, filtered_items |-> <<>>,
     note_mode |-> FALSE, note_title |-> <<>>, fs |-> fsv, editor |-> ed,
     ctl |-> "run", ret |-> TRUE, calls |-> <<>>, wrote |-> <<>>, opened |-> <<>>]

\* the record a key handler leaves in `last`
Handled(k, w) ==
    [key |-> k, before |-> World, calls |-> w.calls, wrote |-> w.wrote,
     opened |-> w.opened, ctl |-> w.ctl, ret |-> w.ret]

----------------------------------------------------------------------------
(* Search mode over drawn directories: handle_search after every key *)

\* most children in a searched directory, longest query typed
MaxItems == 3
MaxFilterQuery == 2

NameUpperA == <<65>>
NameAQ == <<97, 113>>
NameQA == <<113, 97>>
NameQMd == <<113>> \o DotMd
PlainText == <<104, 105>>

\* directories a/ and q/, text files A, aq, qa and q.md
SearchPool ==
    {DirChild(NameA), DirChild(NameQ), FileChild(NameUpperA, PlainText),
     FileChild(NameAQ, PlainText), FileChild(NameQA, PlainText),
     FileChild(NameQMd, <<>>)}

\* the characters typed into the query: a, q, Q
QueryChars == {97, 113, 81}
SearchKeys == QueryChars \cup {KEY_DEL}

\* the session is in Search mode, just entered with `/`, over a scanned directory
SearchInit ==
    /\ current_path \in StartDirs
    /\ \E S \in SUBSET SearchPool :
          /\ Cardinality(S) <= MaxItems
          /\ fs = [InitialFS EXCEPT ![current_path] = ListingOf(S)]
    /\ editor = "unset"
    /\ items = scan_directory(StartWorld(current_path, fs, editor)).items
    /\ cursor_position = 0
    /\ search_mode = TRUE
    /\ search_query = <<>>
    /\ filtered_items = items
    /\ note_mode = FALSE
    /\ note_title = <<>>
    /\ pc = "getch"
    /\ last = NoCall
    /\ handed_off = FALSE
    /\ fn = NoFn

\* handle_input(k) for a key that edits the query
SearchKey(k) ==
    /\ pc = "getch"
    /\ search_mode
    /\ LET w == handle_input(World, k)
       IN  /\ Len(w.search_query) <= MaxFilterQuery
           /\ Becomes(w)
           /\ last' = Handled(k, w)
    /\ UNCHANGED <<editor, pc, fn>>

SearchNext == \E k \in SearchKeys : SearchKey(k)

SearchSpec == SearchInit /\ [][SearchNext]_vars

\* handle_search has run on a non-empty query
Filtered == last.key \in SearchKeys /\ search_query # <<>>

\* the similarity score of an item against the query
ScoreOf(query, item) == fuzz_ratio(Lower(query), Lower(item.name))

\* the position of an entry in a list without repetitions
PosIn(list, x) == CHOOSE i \in 1..Len(list) : list[i] = x

Elements(list) == {list[i] : i \in 1..Len(list)}

NoRepeats(list) ==
    \A i, j \in 1..Len(list) : i # j => list[i] # list[j]

\* the entries of sub, in the order they have in list
IsSubsequence(sub, list) ==
    /\ Elements(sub) \subseteq Elements(list)
    /\ \A i, j \in 1..Len(sub) : i < j => PosIn(list, sub[i]) < PosIn(list, sub[j])

\* the item's score against the query is strictly greater than 40
ScoresAbove40(query, item) ==
    ScoreOf(query, item).num > 40 * ScoreOf(query, item).den

\* the result holds each item scoring above 40 once, and nothing else
ExactlyTheMatches ==
    /\ NoRepeats(filtered_items)
    /\ Elements(filtered_items) =
          {x \in Elements(items) : ScoresAbove40(search_query, x)}

ScoresNonIncreasing ==
    \A i, j \in 1..Len(filtered_items) :
        i < j => ~ScoreGreater(ScoreOf(search_query, filtered_items[j]),
                               ScoreOf(search_query, filtered_items[i]))

\* C11 as stated: after handle_search on a non-empty query, filtered_items is
\* a subsequence of items (its entries in the order of items), holds exactly
\* the items scoring above 40, each once, and its scores never increase
FilterIsSubsequenceOfMatches ==
    Filtered =>
        /\ IsSubsequence(filtered_items, items)
        /\ ExactlyTheMatches
        /\ ScoresNonIncreasing

\* C11 amended: after handle_search on a non-empty query, filtered_items holds
\* exactly the items scoring above 40, each once and none from outside items,
\* with scores never increasing; the order of items is not kept
FilterKeepsExactlyMatchesByScore ==
    Filtered =>
        /\ Elements(filtered_items) \subseteq Elements(items)
        /\ ExactlyTheMatches
        /\ ScoresNonIncreasing

\* C11 witness: a query kept two items, dropped one, and put a later item of
\* items ahead of an earlier one
FilterWitness ==
    /\ Filtered
    /\ Len(filtered_items) >= 2
    /\ Len(filtered_items) < Len(items)
    /\ ~IsSubsequence(filtered_items, items)

\* a key of Search mode that ends in handle_search has been handled
SearchRan == last.key \in SearchKeys /\ last.before.search_mode

\* C12: handle_search leaves items, the current directory and the mode as
\* they were, and with the empty query filtered_items equals items, in order
EmptyQueryIsIdentity ==
    SearchRan =>
        /\ items = last.before.items
        /\ current_path = last.before.current_path
        /\ search_mode = last.before.search_mode
        /\ note_mode = last.before.note_mode
        /\ search_query = <<>> => filtered_items = items

\* C12 witness: Backspace emptied the query over a list of several items that
\* the query had narrowed
EmptyQueryWitness ==
    /\ SearchRan
    /\ last.key = KEY_DEL
    /\ last.before.search_query # <<>>
    /\ search_query = <<>>
    /\ Len(items) >= 2
    /\ last.before.filtered_items # items
    /\ filtered_items = items

----------------------------------------------------------------------------
(* sanitize_filename on its own *)

\* longest title drawn
MaxSanTitle == 3

\* a, B, 1, space, hyphen, underscore, `!`
TitleChars == {97, 66, 49, KEY_SPACE, HYPHEN, UNDERSCORE, 33}

\* the titles drawn: the short strings, and the word `untitled` itself
SanTitles == StringsUpTo(TitleChars, MaxSanTitle) \cup {Untitled}

\* the explorer as constructed; none of its methods that touch state runs
Constructed ==
    /\ current_path = Root
    /\ cursor_position = 0
    /\ items = <<>>
    /\ search_mode = FALSE
    /\ search_query = <<>>
    /\ filtered_items = <<>>
    /\ note_mode = FALSE
    /\ note_title = <<>>
    /\ fs = InitialFS
    /\ editor = "unset"
    /\ last = NoCall
    /\ handed_off = FALSE

Explorer ==
    <<current_path, cursor_position, items, search_mode, search_query,
      filtered_items, note_mode, note_title, fs, editor, last, handed_off>>

SanitizeInit ==
    /\ Constructed
    /\ pc = "call"
    /\ \E title \in SanTitles :
          fn = [name |-> "sanitize_filename", args |-> <<title>>, result |-> <<>>]

SanitizeCall ==
    /\ pc = "call"
    /\ fn.name = "sanitize_filename"
    /\ fn' = [fn EXCEPT !.result = <<sanitize_filename(fn.args[1])>>]
    /\ pc' = "returned"
    /\ UNCHANGED Explorer

SanitizeNext == SanitizeCall

SanitizeSpec == SanitizeInit /\ [][SanitizeNext]_vars

Sanitized == fn.name = "sanitize_filename" /\ pc = "returned"

\* [A-Za-z0-9_], the characters no step of sanitize_filename removes
IsWordChar(c) ==
    c \in (65..90) \cup (97..122) \cup (48..57) \cup {95}

RECURSIVE WordChars(_)
WordChars(s) ==
    IF s = <<>> THEN <<>>
    ELSE IF IsWordChar(s[1]) THEN <<s[1]>> \o WordChars(Tail(s))
    ELSE WordChars(Tail(s))

\* the result is a non-empty name over [A-Za-z0-9_-] without `--` and
\* without a hyphen at either end
WellFormedName(r) ==
    /\ r # <<>>
    /\ \A i \in 1..Len(r) : IsWordChar(r[i]) \/ r[i] = 45
    /\ \A i \in 1..(Len(r) - 1) : ~(r[i] = 45 /\ r[i + 1] = 45)
    /\ r[1] # 45
    /\ r[Len(r)] # 45

\* nothing remains of a title after the four steps: it has no character of
\* [A-Za-z0-9_], since hyphens alone are trimmed away
NothingRemains(title) == WordChars(title) = <<>>

\* C13 as stated: the result is well formed, and it is `untitled` exactly
\* when nothing remains of the title after the four steps
SanitizedUntitledIffEmpty ==
    Sanitized =>
        /\ WellFormedName(fn.result[1])
        /\ fn.result[1] = Untitled <=> NothingRemains(fn.args[1])

\* C13 amended: the result is well formed; it is `untitled` whenever nothing
\* remains of the title, and otherwise it keeps the title's characters of
\* [A-Za-z0-9_] in order, so it is `untitled` only if nothing remains or the
\* title itself spells it
SanitizedWellFormed ==
    Sanitized =>
        /\ WellFormedName(fn.result[1])
        /\ NothingRemains(fn.args[1]) => fn.result[1] = Untitled
        /\ ~NothingRemains(fn.args[1]) =>
              WordChars(fn.result[1]) = WordChars(fn.args[1])
        /\ fn.result[1] = Untitled =>
              NothingRemains(fn.args[1]) \/ WordChars(fn.args[1]) = Untitled

\* C13 witness: a title with a space, a disallowed character and a hyphen
\* came back as a name that is not `untitled`
SanitizedWitness ==
    /\ Sanitized
    /\ \E i, j, k \in 1..Len(fn.args[1]) :
          /\ fn.args[1][i] = KEY_SPACE
          /\ fn.args[1][j] = 33
          /\ fn.args[1][k] = 97
    /\ fn.result[1] = <<97>>

----------------------------------------------------------------------------
(* Notes in directories that already hold notes *)

\* most notes already in the directory, longest title typed
MaxExisting == 3
MaxNoteTitle == 3

\* q.md, q-1.md, q-2.md, a directory q-3.md, and today's daily note, written in
NotePool ==
    {FileChild(NameQMd, PlainText),
     FileChild(NameQ \o <<HYPHEN, 49>> \o DotMd, <<>>),
     FileChild(NameQ \o <<HYPHEN, 50>> \o DotMd, PlainText),
     DirChild(NameQ \o <<HYPHEN, 51>> \o DotMd),
     FileChild(get_daily_note_filename, PlainText)}

\* the characters of the titles: q, 1, hyphen
NoteTitleChars == {113, 49, HYPHEN}
NoteTitles == StringsUpTo(NoteTitleChars, MaxNoteTitle)

NoteKeys == {KEY_LF, KEY_CTRL_D, KEY_CTRL_N, KEY_ESC}

\* the session waits for a key in Browse mode, or in NoteEntry with a title
\* typed, in a directory that holds some of the pool besides its children
NoteInit ==
    /\ current_path \in StartDirs
    /\ \E S \in SUBSET NotePool :
          /\ Cardinality(S) <= MaxExisting
          /\ fs = [InitialFS EXCEPT ![current_path] = @ \o ListingOf(S)]
    /\ editor \in Editors
    /\ items = scan_directory(StartWorld(current_path, fs, editor)).items
    /\ cursor_position = 0
    /\ search_mode = FALSE
    /\ search_query = <<>>
    /\ filtered_items = <<>>
    /\ note_mode \in BOOLEAN
    /\ note_title \in (IF note_mode THEN NoteTitles ELSE {<<>>})
    /\ pc = "getch"
    /\ last = NoCall
    /\ handed_off = FALSE
    /\ fn = NoFn

\* one iteration of the loop that reads the key k
NoteKey(k) ==
    /\ pc = "getch"
    /\ LET w == handle_input(World, k)
       IN  /\ Becomes(w)
           /\ pc' = AfterCall(w)
           /\ last' = Handled(k, w)
    /\ UNCHANGED <<editor, fn>>

NoteNext == Render \/ \E k \in NoteKeys : NoteKey(k)

NoteSpec == NoteInit /\ [][NoteNext]_vars

\* create_note has gone past the blank-title check
NoteCreated ==
    /\ NoteEnterHandled
    /\ Strip(last.before.note_title) # <<>>

\* the k-th path of the sequence stem.md, stem-1.md, stem-2.md, ...
Candidate(dir, stem, k) ==
    Join(dir, IF k = 0 THEN stem \o DotMd
              ELSE stem \o <<45>> \o Decimal(k) \o DotMd)

\* fsv2 is fsv1 with one more child, an empty file at path, and nothing else
\* changed
AddsEmptyFile(fsv1, fsv2, path) ==
    LET dir == Parent(path)
    IN  /\ ~Exists(fsv1, path)
        /\ \A d \in DirPaths \ {dir} : fsv2[d] = fsv1[d]
        /\ Len(fsv2[dir]) = Len(fsv1[dir]) + 1
        /\ Elements(fsv2[dir]) =
              Elements(fsv1[dir]) \cup {FileChild(path[Len(path)], <<>>)}

\* C14: create_note writes the first path of stem.md, stem-1.md, stem-2.md, ...
\* that did not exist; the search ends within as many steps as the directory
\* has children; the write adds an empty file and leaves every existing child
\* as it was; where the write fails nothing changes
CreateNoteTakesFirstFreePath ==
    NoteCreated =>
        LET dir == last.before.current_path
            stem == sanitize_filename(Strip(last.before.note_title))
            old == last.before.fs
        IN  \E k \in 0..Len(old[dir]) :
               /\ \A j \in 0..(k - 1) : Exists(old, Candidate(dir, stem, j))
               /\ ~Exists(old, Candidate(dir, stem, k))
               /\ IF DirWritable(dir)
                      THEN /\ last.wrote = <<Candidate(dir, stem, k)>>
                           /\ AddsEmptyFile(old, fs, Candidate(dir, stem, k))
                      ELSE last.wrote = <<>> /\ fs = old

\* C14 witness: stem.md, stem-1.md and stem-2.md existed, and stem-3.md was
\* written
CreateNoteWitness ==
    /\ NoteCreated
    /\ last.before.note_title = NameQ
    /\ Exists(last.before.fs, Join(DirA, NameQMd))
    /\ last.wrote = <<Join(DirA, NameQ \o <<45, 51>> \o DotMd)>>

\* the daily-note key was handled in Browse mode
DailyKeyHandled ==
    /\ KeyHandled
    /\ last.key = KEY_CTRL_D
    /\ ~last.before.search_mode /\ ~last.before.note_mode

\* 2024-03-07.md, the daily note of the day the clock shows
TodaysNote == <<50, 48, 50, 52, 45, 48, 51, 45, 48, 55, 46, 109, 100>>

TodaysPath == Join(last.before.current_path, TodaysNote)

\* the key left the explorer in Browse mode
StillBrowse == ~search_mode /\ ~note_mode

\* C15 as stated: on the daily-note key in Browse mode, an absent daily note
\* is created empty, an existing one is left as it is, OpenFile is requested
\* on its path in either case, and the mode is unchanged
DailyNoteOpenedRegardless ==
    DailyKeyHandled =>
        /\ IF Exists(last.before.fs, TodaysPath)
               THEN last.wrote = <<>> /\ fs = last.before.fs
               ELSE /\ last.wrote = <<TodaysPath>>
                    /\ AddsEmptyFile(last.before.fs, fs, TodaysPath)
        /\ last.opened = <<TodaysPath>>
        /\ StillBrowse

\* C15 amended: on the daily-note key in Browse mode, an existing daily note
\* is left as it is and opened; an absent one is created empty and opened
\* when the write succeeds, and when the write fails nothing is created and
\* OpenFile is not requested; the mode is unchanged in every case
DailyNoteOpenedUnlessWriteFails ==
    DailyKeyHandled =>
        /\ IF Exists(last.before.fs, TodaysPath)
               THEN /\ last.wrote = <<>> /\ fs = last.before.fs
                    /\ last.opened = <<TodaysPath>>
               ELSE IF DirWritable(last.before.current_path)
                   THEN /\ last.wrote = <<TodaysPath>>
                        /\ AddsEmptyFile(last.before.fs, fs, TodaysPath)
                        /\ last.opened = <<TodaysPath>>
                   ELSE /\ last.wrote = <<>> /\ fs = last.before.fs
                        /\ last.opened = <<>>
                        /\ last.ctl = "run"
        /\ StillBrowse

\* C15 witness: the daily note existed with text in it, and the key opened it
\* without writing
DailyNoteWitness ==
    /\ DailyKeyHandled
    /\ HasChild(last.before.fs, TodaysPath)
    /\ ChildAt(fs, TodaysPath).content # <<>>
    /\ last.opened = <<TodaysPath>>
    /\ last.wrote = <<>>

----------------------------------------------------------------------------
(* The first scan over drawn directories *)

\* most children in a scanned directory
MaxChildren == 3

\* directories a, a-b and B, a hidden directory .d, files a.md and B.MD, z.b
\* (unknown extension), q (text, no extension), x (binary), p (is_dir()
\* raises), u (cannot be read), and the link l to /e
ScanPool ==
    {DirChild(NameA), DirChild(NameA \o <<HYPHEN, 98>>), DirChild(<<66>>),
     DirChild(<<DOT, 100>>),
     FileChild(NameA \o DotMd, <<35>>), FileChild(<<66, DOT, 77, 68>>, <<>>),
     FileChild(<<122, DOT, 98>>, PlainText), FileChild(NameQ, PlainText),
     FileChild(<<120>>, <<0, 1>>),
     [FileChild(<<112>>, <<>>) EXCEPT !.inspect = "err"],
     [FileChild(<<117>>, PlainText) EXCEPT !.read = "err"],
     LinkChild(NameL, DirE)}

\* the listings iterdir() can yield: distinct children in any order
RECURSIVE Listings(_, _)
Listings(pool, n) ==
    IF n = 0 THEN {<<>>}
    ELSE LET shorter == Listings(pool, n - 1)
         IN  shorter \cup
             UNION {{Append(l, c) : c \in pool \ Elements(l)} : l \in shorter}

\* the program is started in a directory it can list
ScanInit ==
    /\ current_path \in StartDirs
    /\ \E listing \in Listings(ScanPool, MaxChildren) :
          fs = [InitialFS EXCEPT ![current_path] = listing]
    /\ editor = "unset"
    /\ cursor_position = 0
    /\ items = <<>>
    /\ search_mode = FALSE
    /\ search_query = <<>>
    /\ filtered_items = <<>>
    /\ note_mode = FALSE
    /\ note_title = <<>>
    /\ pc = "start"
    /\ last = NoCall
    /\ handed_off = FALSE
    /\ fn = NoFn

ScanNext == Run

ScanSpec == ScanInit /\ [][ScanNext]_vars

\* scan_directory has run on the listing
Scanned == pc # "start"

\* the children of the scanned directory, and the entries after `../`
Children == fs[current_path]
Body == SubSeq(items, Len(ParentItems(current_path)) + 1, Len(items))

\* a child the claim lists: not hidden, inspected without error, and a
\* directory (a link to one counts, is_dir() follows it) or an accepted file
Listable(c) ==
    /\ c.name[1] # 46
    /\ c.inspect = "ok"
    /\ c.kind \in {"dir", "link"} \/ (c.kind = "file" /\ is_text_file(c))

\* the entry a child is listed as
EntryOf(c) ==
    IF c.kind = "file"
        THEN Item(c.name, FALSE, Join(current_path, c.name))
        ELSE Item(c.name \o <<47>>, TRUE, Join(current_path, c.name))

\* C16: after a scan the entries besides the parent entry are exactly the
\* entries of the listable children, one each: hidden children, rejected
\* files and children whose inspection fails are absent, and every other
\* child is present whatever else the directory holds
ScanListsExactlyListable ==
    Scanned =>
        /\ Elements(Body) = {EntryOf(c) : c \in {x \in Elements(Children) : Listable(x)}}
        /\ NoRepeats(Body)

\* C16 witness: the directory held a child whose inspection fails ahead of a
\* directory and an accepted file, and both are listed
ScanWitness ==
    /\ Scanned
    /\ Len(Children) = 3
    /\ Children[1].inspect = "err"
    /\ Children[2].kind = "dir" /\ Listable(Children[2])
    /\ Children[3].kind = "file" /\ Listable(Children[3])
    /\ Len(Body) = 2

\* C17: after a scan `../` is listed iff the directory is not the root, and
\* then first and only there; after it no file precedes a directory, and
\* within the directories and within the files the lower-cased entry names
\* never decrease
ScanOrdering ==
    Scanned =>
        /\ (current_path # Root) <=> (\E i \in 1..Len(items) : items[i].name = ParentName)
        /\ \A i \in 1..Len(items) : items[i].name = ParentName => i = 1
        /\ \A i, j \in 1..Len(Body) :
              i < j =>
                  /\ ~(~Body[i].is_dir /\ Body[j].is_dir)
                  /\ Body[i].is_dir = Body[j].is_dir =>
                        ~StrLess(Lower(Body[j].name), Lower(Body[i].name))

\* C17 witness: below the root, iterdir() yielded a file, then B, then a, and
\* the scan lists ../, a/, B/ and the file
ScanOrderingWitness ==
    /\ Scanned
    /\ current_path # Root
    /\ Len(Children) = 3
    /\ Children[1].kind = "file"
    /\ Children[2].name = <<66>>
    /\ Children[3].name = NameA
    /\ Len(items) = 4
    /\ items[2].name = <<97, 47>>
    /\ items[3].name = <<66, 47>>
    /\ ~items[4].is_dir

----------------------------------------------------------------------------
(* The viewport of render_ui on its own *)

\* longest list drawn, tallest terminal
MaxTotal == 10
MaxHeight == 8

\* the row the list starts at: the header and the empty line, and the search
\* or note bar when there is one
ListRows == {2, 3}

\* available_rows = height - row - 2
AvailableRows == {h - r - 2 : h \in 1..MaxHeight, r \in ListRows}

\* a list of `total` items with the cursor in its range (0 for an empty list)
ViewInit ==
    /\ Constructed
    /\ pc = "call"
    /\ \E total \in 0..MaxTotal, rows \in AvailableRows :
          \E cursor \in 0..Max(0, total - 1) :
              fn = [name |-> "render_ui", args |-> <<total, cursor, rows>>,
                    result |-> <<>>]

\* the file list part of render_ui: the window, when the list is not empty,
\* and the indices drawn
ViewCall ==
    /\ pc = "call"
    /\ fn.name = "render_ui"
    /\ LET total == fn.args[1]
           cursor == fn.args[2]
           rows == fn.args[3]
       IN  fn' = [fn EXCEPT !.result =
                     <<[window |-> IF total = 0 THEN <<>>
                                   ELSE visible_window(total, cursor, rows),
                        drawn |-> DrawnIndices(total, cursor, rows)]>>]
    /\ pc' = "returned"
    /\ UNCHANGED Explorer

ViewNext == ViewCall

ViewSpec == ViewInit /\ [][ViewNext]_vars

Drawn == fn.name = "render_ui" /\ pc = "returned"

ViewTotal == fn.args[1]
ViewCursor == fn.args[2]
ViewRows == fn.args[3]
Window == fn.result[1].window

\* C18: for a non-empty list, a cursor in its range and at least one row, the
\* window holds the cursor, stays within the list and has min(total, rows)
\* entries, all of which are drawn; (10, 9, 3) gives (7, 10) and (10, 0, 3)
\* gives (0, 3)
WindowHoldsCursor ==
    Drawn /\ ViewTotal >= 1 /\ ViewRows >= 1 =>
        /\ 0 <= Window[1]
        /\ Window[1] <= ViewCursor
        /\ ViewCursor < Window[2]
        /\ Window[2] <= ViewTotal
        /\ Window[2] - Window[1] = Min(ViewTotal, ViewRows)
        /\ fn.result[1].drawn = {i \in 0..ViewTotal : Window[1] <= i /\ i < Window[2]}
        /\ fn.args = <<10, 9, 3>> => Window = <<7, 10>>
        /\ fn.args = <<10, 0, 3>> => Window = <<0, 3>>

\* C18 witness: ten items, the cursor on the last, three rows: the window (7, 10)
WindowWitness ==
    /\ Drawn
    /\ fn.args = <<10, 9, 3>>
    /\ Window = <<7, 10>>

\* C19: without rows the window of a non-empty list holds no index and
\* nothing is drawn; of an empty list nothing is drawn whatever the rows,
\* which is the window (0, 0)
DegenerateWindowIsEmpty ==
    Drawn =>
        /\ ViewRows <= 0 /\ ViewTotal >= 1 =>
              /\ ~\E i \in 0..ViewTotal : Window[1] <= i /\ i < Window[2]
              /\ fn.result[1].drawn = {}
        /\ ViewTotal = 0 =>
              fn.result[1].drawn = {i \in 0..ViewTotal : 0 <= i /\ i < 0}

\* C19 witness: three items and no row to draw them in
DegenerateWindowWitness ==
    /\ Drawn
    /\ ViewTotal = 3
    /\ ViewCursor = 2
    /\ ViewRows = 0
    /\ fn.result[1].drawn = {}

----------------------------------------------------------------------------
(* Ties in the fuzzy filter *)

\* two entries of the result score the same against the query
Tied(i, j) ==
    LET a == ScoreOf(search_query, filtered_items[i])
        b == ScoreOf(search_query, filtered_items[j])
    IN  a.num * b.den = b.num * a.den

\* C20: after handle_search on a non-empty query, two kept items with equal
\* scores are in the result in the order they have in items
TiesKeepItemOrder ==
    Filtered =>
        \A i, j \in 1..Len(filtered_items) :
            i < j /\ Tied(i, j) =>
                PosIn(items, filtered_items[i]) < PosIn(items, filtered_items[j])

\* C20 witness: the result starts with an item that the sort moved ahead of
\* two tied items, which follow in the order of items
TiesWitness ==
    /\ Filtered
    /\ Len(filtered_items) = 3
    /\ ~Tied(1, 2)
    /\ Tied(2, 3)
    /\ PosIn(items, filtered_items[2]) < PosIn(items, filtered_items[1])
    /\ PosIn(items, filtered_items[2]) < PosIn(items, filtered_items[3])

----------------------------------------------------------------------------
(* is_text_file on its own *)

\* longest file content drawn
MaxContent == 5

\* the bytes of the contents: h, tab, DEL, and the two bytes of an e-acute
ContentBytes == {104, 9, 127, 195, 169}

\* a.md, B.MD, z.b and q
ClassifyNames ==
    {NameA \o DotMd, <<66, DOT, 77, 68>>, <<122, DOT, 98>>, NameQ}

ClassifyInit ==
    /\ Constructed
    /\ pc = "call"
    /\ \E name \in ClassifyNames, content \in StringsUpTo(ContentBytes, MaxContent),
          read \in {"ok", "err"} :
          fn = [name |-> "is_text_file",
                args |-> <<[FileChild(name, content) EXCEPT !.read = read]>>,
                result |-> <<>>]

ClassifyCall ==
    /\ pc = "call"
    /\ fn.name = "is_text_file"
    /\ fn' = [fn EXCEPT !.result =
                 <<[text |-> is_text_file(fn.args[1]),
                    opened |-> OpensFile(fn.args[1])]>>]
    /\ pc' = "returned"
    /\ UNCHANGED Explorer

ClassifyNext == ClassifyCall

ClassifySpec == ClassifyInit /\ [][ClassifyNext]_vars

Classified == fn.name = "is_text_file" /\ pc = "returned"

\* the extension of the classified file, lower-cased
ClassifiedExt == Lower(Suffix(fn.args[1].name))

\* the first up-to-512 bytes of the classified file
FirstBytes ==
    SubSeq(fn.args[1].content, 1, Min(512, Len(fn.args[1].content)))

\* how many of the first bytes are printable ASCII, tab, newline or
\* carriage return
PrintableCount ==
    Cardinality({i \in 1..Len(FirstBytes) :
                    FirstBytes[i] \in (32..126) \cup {9, 10, 13}})

\* C21: a recognized extension gives text without opening the file; with no
\* extension the file is text iff it can be read and its first bytes are
\* empty, or decode as UTF-8 with more than 0.8 of them printable; a failed
\* read gives non-text; an unrecognized extension gives non-text without
\* opening the file
ClassificationTable ==
    Classified =>
        LET text == fn.result[1].text
            opened == fn.result[1].opened
        IN  /\ ClassifiedExt \in TEXT_EXTENSIONS => text /\ ~opened
            /\ ClassifiedExt = <<>> =>
                  /\ opened
                  /\ text <=>
                        /\ fn.args[1].read = "ok"
                        /\ \/ FirstBytes = <<>>
                           \/ /\ ValidUtf8(FirstBytes)
                              /\ 5 * PrintableCount > 4 * Len(FirstBytes)
            /\ ClassifiedExt # <<>> /\ ClassifiedExt \notin TEXT_EXTENSIONS =>
                  ~text /\ ~opened

\* C21 witness: a file without extension whose five bytes decode as UTF-8,
\* four of them printable, is non-text
ClassificationWitness ==
    /\ Classified
    /\ ClassifiedExt = <<>>
    /\ fn.args[1].read = "ok"
    /\ Len(FirstBytes) = 5
    /\ ValidUtf8(FirstBytes)
    /\ PrintableCount = 4
    /\ ~fn.result[1].text

----------------------------------------------------------------------------
(* Search mode keeps filtered_items in step with the query *)

\* the key entered Search, or edited the query in Search
Refiltering ==
    /\ KeyHandled
    /\ \/ ~last.before.search_mode /\ ~last.before.note_mode /\ last.key = 47
       \/ last.before.search_mode /\ (last.key \in {127, 263, 8} \/ Printable(last.key))

\* C22: whenever the mode is Search, filtered_items is the fuzzy filter of
\* items by search_query; entering Search, a printable character and
\* Backspace leave the mode Search with the cursor at 0; any other key that
\* leaves the mode Search leaves search_query and items as they were
SearchKeepsFilterCurrent ==
    /\ search_mode => filtered_items = Filter(search_query, items)
    /\ Refiltering => search_mode /\ cursor_position = 0
    /\ KeyHandled /\ ~Refiltering /\ last.before.search_mode /\ search_mode =>
          search_query = last.before.search_query /\ items = last.before.items

\* C22 witness: Backspace in Search emptied a query that had narrowed the
\* list, and the list is whole again
SearchKeepsFilterWitness ==
    /\ KeyHandled
    /\ last.key = 127
    /\ last.before.search_mode
    /\ last.before.search_query # <<>>
    /\ last.before.filtered_items # last.before.items
    /\ search_mode
    /\ search_query = <<>>
    /\ filtered_items = items

----------------------------------------------------------------------------
(* Quit and the note keys belong to Browse mode *)

BrowseBefore == ~last.before.search_mode /\ ~last.before.note_mode
SearchBefore == last.before.search_mode
NoteBefore == last.before.note_mode /\ ~last.before.search_mode

\* C23: handle_input returns the stop signal exactly for `q` in Browse mode;
\* `q` and `/` in Search are appended to search_query and in NoteEntry to
\* note_title, the mode stays and the loop goes on; Ctrl+N and Ctrl+D
\* outside Browse mode change nothing, write nothing and open nothing
QuitOnlyFromBrowse ==
    KeyReturned =>
        /\ ~last.ret <=> (last.key = 113 /\ BrowseBefore)
        /\ (pc = "quit") <=> (last.key = 113 /\ BrowseBefore)
        /\ SearchBefore /\ last.key \in {113, 47} =>
              /\ search_query = Append(last.before.search_query, last.key)
              /\ search_mode /\ ~note_mode
              /\ note_title = last.before.note_title
        /\ NoteBefore /\ last.key \in {113, 47} =>
              /\ note_title = Append(last.before.note_title, last.key)
              /\ note_mode /\ ~search_mode
              /\ search_query = last.before.search_query
        /\ ~BrowseBefore /\ last.key \in {14, 4} =>
              /\ World = last.before
              /\ last.wrote = <<>>
              /\ last.opened = <<>>

\* C23 witness: `q` typed in Search went into the query, and the loop goes on
QuitOnlyFromBrowseWitness ==
    /\ KeyReturned
    /\ last.key = 113
    /\ SearchBefore
    /\ search_query = <<113>>
    /\ last.ret
    /\ pc = "render"

====
